---- MODULE Spec2Model ----
(***************************************************************************)
(* Model of src/src/Pages/Register/Register.jsx: the registration form's   *)
(* record, the zod schema behind its resolver, the two keystroke filters   *)
(* with their one-shot clearing timers, and the submission flow.           *)
(*                                                                         *)
(* A string is a sequence of one-character strings, so that length,        *)
(* pattern and insertion are computed and not assumed.  A key (e.key) is   *)
(* the sequence of the characters of its name.                             *)
(***************************************************************************)
EXTENDS Integers, Sequences, FiniteSets, TLC

VARIABLES
    record,         \* the form's values (useForm), one entry per field
    errors,         \* formState.errors: failing field -> message
    nameErrors,     \* useState, lines 47-50
    numericErrors,  \* useState, lines 52-56
    timerQ,         \* pending setTimeout callbacks, in scheduling order
    subs,           \* the onSubmit invocations, in order of invocation
    dialog,         \* the Swal popup that is open, if any
    nInputs,        \* key events and select / checkbox changes so far
    nSubmits        \* submit events so far

vars == <<record, errors, nameErrors, numericErrors, timerQ, subs, dialog,
          nInputs, nSubmits>>

----------------------------------------------------------------------------
(* Bounds of the model *)

MaxInputs == 2

MaxSubmits == 2

MaxShort == 3

MaxPhoneLen == 17

----------------------------------------------------------------------------
(* Program constants *)

ErrorDelay == 2000

SubmitDelay == 1000

FilterCap == 10

PhoneMin == 10

PhoneMax == 15

----------------------------------------------------------------------------
(* Characters and keys *)

Digits == {"0", "1", "2", "3", "4", "5", "6", "7", "8", "9"}

Letters ==
    {"a", "b", "c", "d", "e", "f", "g", "h", "i", "j", "k", "l", "m",
     "n", "o", "p", "q", "r", "s", "t", "u", "v", "w", "x", "y", "z",
     "A", "B", "C", "D", "E", "F", "G", "H", "I", "J", "K", "L", "M",
     "N", "O", "P", "Q", "R", "S", "T", "U", "V", "W", "X", "Y", "Z"}

Whitespace == {" "}

Backspace == <<"B", "a", "c", "k", "s", "p", "a", "c", "e">>

Delete == <<"D", "e", "l", "e", "t", "e">>

Tab == <<"T", "a", "b">>

Enter == <<"E", "n", "t", "e", "r">>

F2 == <<"F", "2">>

\* /[0-9]/.test(e.key): the pattern is not anchored, it looks for a digit
\* anywhere in the key's name.
ContainsDigit(key) == \E i \in 1..Len(key) : key[i] \in Digits

\* /^[A-Za-z\s]+$/
MatchesLetters(v) ==
    /\ Len(v) >= 1
    /\ \A i \in 1..Len(v) : v[i] \in Letters \cup Whitespace

\* /^\d+$/
MatchesDigits(v) ==
    /\ Len(v) >= 1
    /\ \A i \in 1..Len(v) : v[i] \in Digits

AlphaNum == Letters \cup Digits

\* zod's e-mail pattern:
\* /^(?!\.)(?!.*\.\.)([A-Z0-9_'+\-\.]*)[A-Z0-9_+-]@([A-Z0-9][A-Z0-9\-]*\.)+[A-Z]{2,}$/i
MatchesEmail(v) ==
    \E at \in 1..Len(v) :
        LET local == SubSeq(v, 1, at - 1)
            dom   == SubSeq(v, at + 1, Len(v))
            dots  == {p \in 1..Len(dom) : dom[p] = "."}
        IN  /\ v[at] = "@"
            /\ v[1] # "."
            /\ \A i \in 1..(Len(v) - 1) : ~(v[i] = "." /\ v[i + 1] = ".")
            /\ Len(local) >= 1
            /\ \A i \in 1..Len(local) :
                   local[i] \in AlphaNum \cup {"_", "'", "+", "-", "."}
            /\ local[Len(local)] \in AlphaNum \cup {"_", "+", "-"}
            /\ dots # {}
            /\ \A i \in 1..Len(dom) : dom[i] \in AlphaNum \cup {"-", "."}
            /\ dom[1] \in AlphaNum
            /\ \A p \in dots : p < Len(dom) /\ dom[p + 1] \in AlphaNum
            /\ LET last == CHOOSE p \in dots : \A q \in dots : q <= p
               IN  /\ Len(dom) - last >= 2
                   /\ \A i \in (last + 1)..Len(dom) : dom[i] \in Letters

----------------------------------------------------------------------------
(* The schema, lines 8-44 *)

TextFields ==
    {"firstName", "lastName", "company", "businessArena", "street",
     "additionalInfo", "zipCode", "code", "phoneNumber", "email"}

SelectFields == {"title", "position", "employees", "place", "country"}

Fields == TextFields \cup SelectFields \cup {"acceptTerms"}

NameFields == {"firstName", "lastName"}

NumericFields == {"zipCode", "code", "phoneNumber"}

PlainFields == TextFields \ (NameFields \cup NumericFields)

Min(n, m) == [type |-> "min", arg |-> n, pat |-> "", msg |-> m]

Max(n, m) == [type |-> "max", arg |-> n, pat |-> "", msg |-> m]

Regex(p, m) == [type |-> "regex", arg |-> 0, pat |-> p, msg |-> m]

Email(m) == [type |-> "email", arg |-> 0, pat |-> "", msg |-> m]

Literal(m) == [type |-> "literal", arg |-> 0, pat |-> "", msg |-> m]

schema ==
    [title          |-> <<Min(1, "Title is required")>>,
     firstName      |-> <<Min(1, "First name is required"),
                          Regex("letters", "Only letters are allowed")>>,
     lastName       |-> <<Min(1, "Last name is required"),
                          Regex("letters", "Only letters are allowed")>>,
     position       |-> <<Min(1, "Position is required")>>,
     company        |-> <<Min(1, "Company is required")>>,
     businessArena  |-> <<Min(1, "Business Arena is required")>>,
     employees      |-> <<Min(1, "Number of employees is required")>>,
     street         |-> <<Min(1, "Street is required")>>,
     additionalInfo |-> <<>>,
     zipCode        |-> <<Min(1, "Zip code is required"),
                          Regex("digits", "Only numbers are allowed")>>,
     place          |-> <<Min(1, "Place is required")>>,
     country        |-> <<Min(1, "Country is required")>>,
     code           |-> <<Min(1, "Code is required"),
                          Regex("digits", "Only numbers are allowed")>>,
     phoneNumber    |-> <<Min(1, "Phone number is required"),
                          Regex("digits", "Only numbers are allowed"),
                          Min(PhoneMin, "Phone number must be at least 10 digits"),
                          Max(PhoneMax, "Phone number must not exceed 15 digits")>>,
     email          |-> <<Min(1, "Email is required"),
                          Email("Invalid email format")>>,
     acceptTerms    |-> <<Literal("You must accept the terms")>>]

\* One check of a zod type against a value.
Passes(check, v) ==
    CASE check.type = "min"     -> Len(v) >= check.arg
      [] check.type = "max"     -> Len(v) <= check.arg
      [] check.type = "regex"   -> IF check.pat = "letters"
                                   THEN MatchesLetters(v)
                                   ELSE MatchesDigits(v)
      [] check.type = "email"   -> MatchesEmail(v)
      [] check.type = "literal" -> v = TRUE

RECURSIVE FailedOf(_, _)
\* zod runs every check of a string and collects one issue per failing
\* check, in the order of declaration.
FailedOf(checks, v) ==
    IF checks = <<>> THEN <<>>
    ELSE LET rest == FailedOf(Tail(checks), v)
         IN  IF Passes(Head(checks), v) THEN rest
             ELSE <<Head(checks).msg>> \o rest

Issues(f, v) == FailedOf(schema[f], v)

\* Variant: the last issue of a path overwrites the earlier ones.
FieldErrorLast(issues) == issues[Len(issues)]

\* zodResolver keeps, for each path, the first issue zod reported for it.
FieldError(issues) == Head(issues)

\* zodResolver(schema): failing field -> message; passing fields are absent.
Validate(r) ==
    [f \in {g \in Fields : Issues(g, r[g]) # <<>>} |->
        FieldError(Issues(f, r[f]))]

NoErrors == [f \in {} |-> ""]

----------------------------------------------------------------------------
(* The form: field values, option lists, messages *)

\* The <option> values of each <select>, lines 185-327; "" is its placeholder.
options ==
    [title |-> {<<>>, <<"m", "r">>, <<"m", "r", "s">>, <<"m", "s">>},
     position |-> {<<>>, <<"m", "a", "n", "a", "g", "e", "r">>, <<"d", "e", "v", "e", "l", "o", "p", "e", "r">>, <<"t", "e", "c", "h", "-", "l", "e", "a", "d">>, <<"d", "e", "s", "i", "g", "n", "e", "r">>},
     employees |-> {<<>>, <<"1", "-", "1", "0">>, <<"1", "1", "-", "5", "0">>},
     place |-> {<<>>, <<"m", "a", "t", "a", "r", "a">>, <<"c", "o", "l", "o", "m", "b", "o">>, <<"g", "a", "l", "l", "e">>},
     country |-> {<<>>, <<"u", "s">>, <<"i", "n">>, <<"n", "l">>, <<"a", "e">>}]

\* useForm's defaultValues, lines 65-82.
defaultValues ==
    [title |-> <<>>, firstName |-> <<>>, lastName |-> <<>>, position |-> <<>>,
     company |-> <<>>, businessArena |-> <<>>, employees |-> <<>>,
     street |-> <<>>, additionalInfo |-> <<>>, zipCode |-> <<>>,
     place |-> <<>>, country |-> <<>>, code |-> <<>>, phoneNumber |-> <<>>,
     email |-> <<>>, acceptTerms |-> FALSE]

\* A record the user has filled in completely; every field passes, and the
\* three numeric fields hold as many digits as the keystroke filter lets in.
Filled ==
    [title |-> <<"m", "r">>, firstName |-> <<"J">>, lastName |-> <<"D">>,
     position |-> <<"d", "e", "v", "e", "l", "o", "p", "e", "r">>,
     company |-> <<"A">>, businessArena |-> <<"T">>,
     employees |-> <<"1", "-", "1", "0">>, street |-> <<"1">>,
     additionalInfo |-> <<>>,
     zipCode |-> <<"1", "2", "3", "4", "5", "6", "7", "8", "9", "0">>,
     place |-> <<"c", "o", "l", "o", "m", "b", "o">>, country |-> <<"u", "s">>,
     code |-> <<"9", "4", "0", "0", "0", "0", "0", "0", "0", "0">>,
     phoneNumber |-> <<"0", "7", "7", "1", "2", "3", "4", "5", "6", "7">>,
     email |-> <<"j", "@", "a", "c", ".", "m", "e">>,
     acceptTerms |-> TRUE]

NumbersNotAllowed == "Numbers are not allowed in this field"

OnlyNumbers == "Only numbers are allowed in this field"

MaxDigits == "Maximum 10 digits allowed"

\* The keys a user presses in each class of field.  A keypress event exists
\* for character keys only; keydown exists for every key.  The inputs without
\* a handler take any key unseen by the component; there the user erases.
NameKeys == {<<"a">>, <<"1">>}

NumericKeys == {<<"1">>, <<"a">>, Backspace, Delete, Tab, Enter, F2}

PlainKeys == {Backspace, Delete}

EraseKeys == {Backspace, Delete}

\* The options a user picks in a <select>: its placeholder, or the option
\* the filled-in record holds.
Picked(f) == {<<>>, Filled[f]}

----------------------------------------------------------------------------
(* What the browser does with a key the handlers let through *)

\* The selection of the focused input as <<start, end>> when a key goes
\* down: the caret at the end of the value or, for the erasing keys, also the
\* whole value selected.
Selections(v, key) ==
    {<<Len(v), Len(v)>>} \cup (IF key \in {Backspace, Delete} THEN {<<0, Len(v)>>} ELSE {})

Splice(v, from, to, mid) == SubSeq(v, 1, from) \o mid \o SubSeq(v, to + 1, Len(v))

\* The default action of a key on an input's value: a character replaces the
\* selection, Backspace and Delete remove the selection or the character
\* next to the caret, any other named key inserts nothing.
DefaultAction(v, sel, key) ==
    CASE Len(key) = 1 -> Splice(v, sel[1], sel[2], key)
      [] key \in EraseKeys /\ sel[1] < sel[2] -> Splice(v, sel[1], sel[2], <<>>)
      [] key = Backspace /\ sel[1] = sel[2] /\ sel[1] > 0 ->
             Splice(v, sel[1] - 1, sel[1], <<>>)
      [] key = Delete /\ sel[1] = sel[2] /\ sel[1] < Len(v) ->
             Splice(v, sel[1], sel[1] + 1, <<>>)
      [] OTHER -> v

----------------------------------------------------------------------------
(* The keystroke filters, lines 85-140 *)

Allowed == [prevented |-> FALSE, msg |-> ""]

Rejected(m) == [prevented |-> TRUE, msg |-> m]

\* Variant: the test of the key is inverted.
handleNameInputInverted(key) ==
    IF ~ContainsDigit(key) THEN Rejected(NumbersNotAllowed) ELSE Allowed

\* handleNameInput's decision on one keypress.
handleNameInput(key) ==
    IF ContainsDigit(key) THEN Rejected(NumbersNotAllowed) ELSE Allowed

\* Variant: the length test is strict, so an eleventh digit gets in.
handleNumericInputStrict(key, value) ==
    IF ~ContainsDigit(key) /\ key # Backspace /\ key # Delete /\ key # Tab
    THEN Rejected(OnlyNumbers)
    ELSE IF ContainsDigit(key) /\ Len(value) > FilterCap
         THEN Rejected(MaxDigits)
         ELSE Allowed

\* handleNumericInput's decision on one keydown; value is e.target.value.
handleNumericInput(key, value) ==
    IF ~ContainsDigit(key) /\ key # Backspace /\ key # Delete /\ key # Tab
    THEN Rejected(OnlyNumbers)
    ELSE IF ContainsDigit(key) /\ Len(value) >= FilterCap
         THEN Rejected(MaxDigits)
         ELSE Allowed

\* setTimeout(() => setXErrors(prev => ({...prev, [field]: ""})), 2000)
ClearTimer(map, f) ==
    [kind |-> "clear", map |-> map, field |-> f, id |-> 0, delay |-> ErrorDelay]

\* new Promise(resolve => setTimeout(resolve, 1000)) of invocation id
SubmitTimer(id) ==
    [kind |-> "submit", map |-> "", field |-> "", id |-> id, delay |-> SubmitDelay]

NoDialog == [kind |-> "none", owner |-> 0]

\* A Swal popup is modal: while one is open the form takes no user input.
FormUsable == dialog.kind = "none"

----------------------------------------------------------------------------
(* State after the component has mounted, or after the user has filled the *)
(* form in                                                                 *)

Init ==
    /\ record \in {defaultValues, Filled}
    /\ errors = NoErrors
    /\ nameErrors = [f \in NameFields |-> ""]
    /\ numericErrors = [f \in NumericFields |-> ""]
    /\ timerQ = <<>>
    /\ subs = <<>>
    /\ dialog = NoDialog
    /\ nInputs = 0
    /\ nSubmits = 0

----------------------------------------------------------------------------
(* User input *)

\* onKeyPress of firstName / lastName, lines 202 and 215.
KeyPressName(f, key, sel) ==
    /\ FormUsable
    /\ nInputs < MaxInputs
    /\ nInputs' = nInputs + 1
    /\ LET r == handleNameInput(key)
       IN  IF r.prevented
           THEN /\ nameErrors' = [nameErrors EXCEPT ![f] = r.msg]
                /\ timerQ' = Append(timerQ, ClearTimer("name", f))
                /\ record' = record
           ELSE /\ record' = [record EXCEPT ![f] = DefaultAction(@, sel, key)]
                /\ UNCHANGED <<nameErrors, timerQ>>
    /\ UNCHANGED <<errors, numericErrors, subs, dialog, nSubmits>>

\* onKeyDown of zipCode / code / phoneNumber, lines 299, 339 and 352.
KeyDownNumeric(f, key, sel) ==
    /\ FormUsable
    /\ nInputs < MaxInputs
    /\ nInputs' = nInputs + 1
    /\ LET r == handleNumericInput(key, record[f])
       IN  IF r.prevented
           THEN /\ numericErrors' = [numericErrors EXCEPT ![f] = r.msg]
                /\ timerQ' = Append(timerQ, ClearTimer("numeric", f))
                /\ record' = record
           ELSE /\ record' = [record EXCEPT ![f] = DefaultAction(@, sel, key)]
                /\ UNCHANGED <<numericErrors, timerQ>>
    /\ UNCHANGED <<errors, nameErrors, subs, dialog, nSubmits>>

\* A key in a text input that has no handler for it: every key of the plain
\* inputs, and the erasing keys of the name inputs (they raise no keypress).
KeyUnfiltered(f, key, sel) ==
    /\ FormUsable
    /\ nInputs < MaxInputs
    /\ nInputs' = nInputs + 1
    /\ record' = [record EXCEPT ![f] = DefaultAction(@, sel, key)]
    /\ UNCHANGED <<errors, nameErrors, numericErrors, timerQ, subs, dialog,
                   nSubmits>>

\* The user picks an <option> of a <select>.
SelectOption(f, v) ==
    /\ FormUsable
    /\ nInputs < MaxInputs
    /\ v \in options[f]
    /\ v # record[f]
    /\ nInputs' = nInputs + 1
    /\ record' = [record EXCEPT ![f] = v]
    /\ UNCHANGED <<errors, nameErrors, numericErrors, timerQ, subs, dialog,
                   nSubmits>>

\* The user clicks the acceptTerms checkbox.
ToggleTerms ==
    /\ FormUsable
    /\ nInputs < MaxInputs
    /\ nInputs' = nInputs + 1
    /\ record' = [record EXCEPT !.acceptTerms = ~@]
    /\ UNCHANGED <<errors, nameErrors, numericErrors, timerQ, subs, dialog,
                   nSubmits>>

----------------------------------------------------------------------------
(* Submission, lines 141-180 *)

\* Variant: the reset leaves the checkbox ticked.
ResetValuesKeepTerms == [defaultValues EXCEPT !.acceptTerms = TRUE]

\* reset(): the values go back to defaultValues and formState.errors is
\* emptied; the component's own useState mappings are not touched.
ResetValues == defaultValues

\* Swal.fire while a popup is open closes that popup and resolves its promise
\* as dismissed; closing a success popup resumes the onSubmit that awaits it.
Awaiting(d) == IF d.kind = "success" THEN {d.owner} ELSE {}

\* The onSubmit invocations in `done` run the rest of onSubmit: reset().
\* `edited` notes that the record reset() replaces no longer passes the
\* validator, that is, it was edited after this invocation's validation.
Resume(s, done, before) ==
    [i \in 1..Len(s) |->
        IF i \in done
        THEN [phase |-> "done", edited |-> (Validate(before) # NoErrors)]
        ELSE s[i]]

\* Variant: onSubmit is wired to the form directly and runs unvalidated.
SubmitUnchecked ==
    /\ FormUsable
    /\ nSubmits < MaxSubmits
    /\ nSubmits' = nSubmits + 1
    /\ errors' = NoErrors
    /\ subs' = Append(subs, [phase |-> "delay", edited |-> FALSE])
    /\ timerQ' = Append(timerQ, SubmitTimer(Len(subs) + 1))
    /\ UNCHANGED <<dialog, record, nameErrors, numericErrors, nInputs>>

\* Variant: a submit is ignored while an earlier onSubmit has not returned.
SubmitWhenIdle ==
    /\ FormUsable
    /\ \A k \in 1..Len(subs) : subs[k].phase = "done"
    /\ nSubmits < MaxSubmits
    /\ nSubmits' = nSubmits + 1
    /\ errors' = Validate(record)
    /\ IF Validate(record) = NoErrors
       THEN /\ subs' = Append(subs, [phase |-> "delay", edited |-> FALSE])
            /\ timerQ' = Append(timerQ, SubmitTimer(Len(subs) + 1))
            /\ UNCHANGED dialog
       ELSE /\ dialog' = [kind |-> "warning", owner |-> 0]
            /\ UNCHANGED <<subs, timerQ>>
    /\ UNCHANGED <<record, nameErrors, numericErrors, nInputs>>

\* handleSubmit(onSubmit, onError): the resolver validates the record; with
\* no error onSubmit starts and waits for its delay, otherwise onError shows
\* the warning popup.
Submit ==
    /\ FormUsable
    /\ nSubmits < MaxSubmits
    /\ nSubmits' = nSubmits + 1
    /\ errors' = Validate(record)
    /\ IF Validate(record) = NoErrors
       THEN /\ subs' = Append(subs, [phase |-> "delay", edited |-> FALSE])
            /\ timerQ' = Append(timerQ, SubmitTimer(Len(subs) + 1))
            /\ UNCHANGED dialog
       ELSE /\ dialog' = [kind |-> "warning", owner |-> 0]
            /\ UNCHANGED <<subs, timerQ>>
    /\ UNCHANGED <<record, nameErrors, numericErrors, nInputs>>

\* Timers of equal delay fire in the order they were set; a timer set later
\* with a shorter delay may overtake one set earlier with a longer delay.
Due(i) == \A j \in 1..(i - 1) : timerQ[j].delay > timerQ[i].delay

Without(q, i) == SubSeq(q, 1, i - 1) \o SubSeq(q, i + 1, Len(q))

\* Variant: the callback stores a fresh mapping instead of updating the
\* previous one, which empties the entries of the other fields too.
ClearErrorWholeMap(i) ==
    /\ i \in 1..Len(timerQ)
    /\ timerQ[i].kind = "clear"
    /\ Due(i)
    /\ timerQ' = Without(timerQ, i)
    /\ IF timerQ[i].map = "name"
       THEN /\ nameErrors' = [f \in NameFields |-> ""]
            /\ UNCHANGED numericErrors
       ELSE /\ numericErrors' = [f \in NumericFields |-> ""]
            /\ UNCHANGED nameErrors
    /\ UNCHANGED <<record, errors, subs, dialog, nInputs, nSubmits>>

\* The callback of a clearing timer, lines 93-98, 115-120 and 133-138.
ClearError(i) ==
    /\ i \in 1..Len(timerQ)
    /\ timerQ[i].kind = "clear"
    /\ Due(i)
    /\ timerQ' = Without(timerQ, i)
    /\ IF timerQ[i].map = "name"
       THEN /\ nameErrors' = [nameErrors EXCEPT ![timerQ[i].field] = ""]
            /\ UNCHANGED numericErrors
       ELSE /\ numericErrors' = [numericErrors EXCEPT ![timerQ[i].field] = ""]
            /\ UNCHANGED nameErrors
    /\ UNCHANGED <<record, errors, subs, dialog, nInputs, nSubmits>>

\* Variant: the success popup is not awaited, reset() runs as it opens.
DelayDoneNoAwait(i) ==
    /\ i \in 1..Len(timerQ)
    /\ timerQ[i].kind = "submit"
    /\ Due(i)
    /\ timerQ' = Without(timerQ, i)
    /\ dialog' = [kind |-> "success", owner |-> 0]
    /\ subs' = Resume(subs, Awaiting(dialog) \cup {timerQ[i].id}, record)
    /\ record' = ResetValues
    /\ errors' = NoErrors
    /\ UNCHANGED <<nameErrors, numericErrors, nInputs, nSubmits>>

\* The delay of an onSubmit invocation is over: it shows the success popup
\* and waits for it, lines 143-151.
DelayDone(i) ==
    /\ i \in 1..Len(timerQ)
    /\ timerQ[i].kind = "submit"
    /\ Due(i)
    /\ timerQ' = Without(timerQ, i)
    /\ LET id == timerQ[i].id
           resumed == Awaiting(dialog)
       IN  /\ dialog' = [kind |-> "success", owner |-> id]
           /\ subs' = Resume([subs EXCEPT ![id].phase = "dialog"], resumed, record)
           /\ IF resumed # {}
              THEN /\ record' = ResetValues
                   /\ errors' = NoErrors
              ELSE UNCHANGED <<record, errors>>
    /\ UNCHANGED <<nameErrors, numericErrors, nInputs, nSubmits>>

\* The user closes the open popup; a success popup resumes its onSubmit,
\* which calls reset(), line 153.
DismissDialog ==
    /\ dialog.kind # "none"
    /\ dialog' = NoDialog
    /\ subs' = Resume(subs, Awaiting(dialog), record)
    /\ IF Awaiting(dialog) # {}
       THEN /\ record' = ResetValues
            /\ errors' = NoErrors
       ELSE UNCHANGED <<record, errors>>
    /\ UNCHANGED <<nameErrors, numericErrors, timerQ, nInputs, nSubmits>>

----------------------------------------------------------------------------

KeyEvent ==
    \/ \E f \in NameFields, key \in NameKeys :
           \E sel \in Selections(record[f], key) : KeyPressName(f, key, sel)
    \/ \E f \in NumericFields, key \in NumericKeys :
           \E sel \in Selections(record[f], key) : KeyDownNumeric(f, key, sel)
    \/ \E f \in PlainFields, key \in PlainKeys :
           \E sel \in Selections(record[f], key) : KeyUnfiltered(f, key, sel)
    \/ \E f \in NameFields, key \in EraseKeys :
           \E sel \in Selections(record[f], key) : KeyUnfiltered(f, key, sel)

Pick ==
    \/ \E f \in SelectFields : \E v \in Picked(f) : SelectOption(f, v)
    \/ ToggleTerms

TimerFires ==
    \/ \E i \in 1..Len(timerQ) : ClearError(i)
    \/ \E i \in 1..Len(timerQ) : DelayDone(i)

Next ==
    \/ KeyEvent
    \/ Pick
    \/ Submit
    \/ TimerFires
    \/ DismissDialog

Spec == Init /\ [][Next]_vars

\* The event loop runs every timer callback that is due.
FairSpec == Spec /\ WF_vars(TimerFires)

----------------------------------------------------------------------------
(* The validator on its own: the record is drawn from a set of candidate    *)
(* records and the submission flow is run on it, with no further input.     *)

RECURSIVE StringsOver(_, _)
StringsOver(chars, n) ==
    IF n = 0 THEN {<<>>}
    ELSE LET shorter == StringsOver(chars, n - 1)
         IN  shorter \cup {Append(v, c) : v \in shorter, c \in chars}

DigitRun(n) == [i \in 1..n |-> "7"]

PhoneInputs ==
    StringsOver({"1", "a"}, MaxShort)
        \cup {DigitRun(n) : n \in 0..MaxPhoneLen}
        \cup {Append(DigitRun(n), "x") : n \in 0..MaxPhoneLen}

ValidatorInputs ==
    {[Filled EXCEPT !.phoneNumber = v] : v \in PhoneInputs}
        \cup {[Filled EXCEPT ![f] = v] :
                 f \in NameFields \cup {"zipCode", "code"},
                 v \in StringsOver({"1", "a"}, MaxShort)}

InitValidate ==
    /\ record \in ValidatorInputs
    /\ errors = NoErrors
    /\ nameErrors = [f \in NameFields |-> ""]
    /\ numericErrors = [f \in NumericFields |-> ""]
    /\ timerQ = <<>>
    /\ subs = <<>>
    /\ dialog = NoDialog
    /\ nInputs = 0
    /\ nSubmits = 0

NextValidate ==
    \/ Submit
    \/ \E i \in 1..Len(timerQ) : DelayDone(i)
    \/ DismissDialog

SpecValidate == InitValidate /\ [][NextValidate]_vars

----------------------------------------------------------------------------
(* Vocabulary of the properties *)

SubmitStep == nSubmits' # nSubmits

Required == Fields \ {"additionalInfo"}

IsEmptyValue(f, v) == IF f = "acceptTerms" THEN v = FALSE ELSE v = <<>>

EmptyValue(f) == IF f = "acceptTerms" THEN FALSE ELSE <<>>

IsDigitKey(key) == Len(key) = 1 /\ key[1] \in Digits

ErrorAt(e, f) == IF f \in DOMAIN e THEN e[f] ELSE ""

ClearTimers(q) == SelectSeq(q, LAMBDA t : t.kind = "clear")

SubmitTimers(q) == SelectSeq(q, LAMBDA t : t.kind = "submit")

TransientOf(t) ==
    IF t.map = "name" THEN nameErrors[t.field] ELSE numericErrors[t.field]

----------------------------------------------------------------------------
\* C1: a submit on a record whose every field passes starts the delay and
\* shows no popup; when the delay of an invocation is over the success popup
\* opens for it; when that popup closes the record is reset to the default
\* values and the errors are emptied; an invocation only ever moves
\* delay -> popup -> done, and no warning or error popup opens on the way.
C1_ValidSubmitFlow ==
    [][/\ (SubmitStep /\ \A f \in Fields : Issues(f, record[f]) = <<>>) =>
              /\ Len(subs') = Len(subs) + 1
              /\ subs'[Len(subs')].phase = "delay"
              /\ timerQ' = Append(timerQ, SubmitTimer(Len(subs')))
              /\ dialog' = NoDialog
              /\ record' = record
       /\ \A k \in 1..Len(subs) :
              /\ (subs[k].phase = "delay" /\ subs'[k].phase # "delay") =>
                     /\ subs'[k].phase = "dialog"
                     /\ dialog' = [kind |-> "success", owner |-> k]
                     /\ Len(SubmitTimers(timerQ')) = Len(SubmitTimers(timerQ)) - 1
              /\ (subs[k].phase = "dialog" /\ subs'[k].phase # "dialog") =>
                     /\ subs'[k].phase = "done"
                     /\ dialog # dialog'
                     /\ dialog'.kind \in {"none", "success"}
                     /\ record' = defaultValues
                     /\ errors' = NoErrors
              /\ subs[k].phase = "done" => subs'[k].phase = "done"
       /\ dialog'.kind # "error"
      ]_vars

\* C1 witness: an invocation has run to its end: the record holds the default
\* values, no popup is open and no delay is pending.
C1_Witness ==
    /\ Len(subs) >= 1
    /\ subs[1].phase = "done"
    /\ record = defaultValues
    /\ dialog = NoDialog
    /\ SubmitTimers(timerQ) = <<>>

\* C2: a submit on a record with a failing field shows the warning popup at
\* once, starts no delay and no onSubmit, leaves the record as it is and gives
\* the failing field a non-empty error; with exactly one required field empty
\* in an otherwise filled-in record that field alone has an error.
C2_InvalidSubmit ==
    [][/\ (SubmitStep /\ \E f \in Fields : Issues(f, record[f]) # <<>>) =>
              /\ dialog' = [kind |-> "warning", owner |-> 0]
              /\ timerQ' = timerQ
              /\ subs' = subs
              /\ record' = record
       /\ \A f \in Required :
              (SubmitStep /\ IsEmptyValue(f, record[f])) =>
                  /\ dialog'.kind = "warning"
                  /\ timerQ' = timerQ
                  /\ subs' = subs
                  /\ record' = record
                  /\ ErrorAt(errors', f) # ""
                  /\ (record = [Filled EXCEPT ![f] = EmptyValue(f)]) =>
                         DOMAIN errors' = {f}
      ]_vars

\* C2 witness: the filled-in record with the e-mail erased has been submitted:
\* the warning popup is open, e-mail alone has an error, nothing is pending.
C2_Witness ==
    /\ record = [Filled EXCEPT !.email = <<>>]
    /\ nSubmits = 1
    /\ dialog.kind = "warning"
    /\ DOMAIN errors = {"email"}
    /\ subs = <<>>
    /\ timerQ = <<>>

\* C3: the validator reports, for phoneNumber, the message of the first
\* failing constraint: empty -> required; not empty with a non-digit -> only
\* numbers; all digits and 1..9 long -> at least 10; all digits and longer
\* than 15 -> must not exceed 15; all digits and 10..15 long -> no error.  The
\* other fields with two constraints report "required" when empty and the
\* pattern message when not empty and off the pattern.
C3_FirstFailingConstraint ==
    [][SubmitStep =>
          LET p == record.phoneNumber
              digits == \A i \in 1..Len(p) : p[i] \in Digits
              m == ErrorAt(errors', "phoneNumber")
          IN  /\ Len(p) = 0 => m = "Phone number is required"
              /\ (Len(p) > 0 /\ ~digits) => m = "Only numbers are allowed"
              /\ (digits /\ Len(p) >= 1 /\ Len(p) <= 9) =>
                     m = "Phone number must be at least 10 digits"
              /\ (digits /\ Len(p) > 15) =>
                     m = "Phone number must not exceed 15 digits"
              /\ (digits /\ Len(p) >= 10 /\ Len(p) <= 15) =>
                     "phoneNumber" \notin DOMAIN errors'
              /\ ErrorAt(errors', "zipCode") =
                     (IF record.zipCode = <<>> THEN "Zip code is required"
                      ELSE IF \E i \in 1..Len(record.zipCode) :
                                  record.zipCode[i] \notin Digits
                           THEN "Only numbers are allowed" ELSE "")
              /\ ErrorAt(errors', "firstName") =
                     (IF record.firstName = <<>> THEN "First name is required"
                      ELSE IF \E i \in 1..Len(record.firstName) :
                                  record.firstName[i] \notin Letters \cup Whitespace
                           THEN "Only letters are allowed" ELSE "")
      ]_vars

\* C3 witness: a phone number of more than 15 digits has been validated and
\* carries the upper-bound message.
C3_Witness ==
    /\ nSubmits = 1
    /\ Len(record.phoneNumber) > 15
    /\ ErrorAt(errors, "phoneNumber") = "Phone number must not exceed 15 digits"

C5_EveryOtherKeyRejected ==
    [][\A f \in NumericFields, key \in NumericKeys :
          (/\ ~IsDigitKey(key)
           /\ key \notin {Backspace, Delete, Tab}
           /\ \E sel \in Selections(record[f], key) : KeyDownNumeric(f, key, sel)) =>
              /\ record'[f] = record[f]
              /\ numericErrors'[f] = "Only numbers are allowed in this field"
      ]_vars

\* C6: the stored value of a numeric field never exceeds 10 characters, and a
\* digit keydown on a value of 10 or more characters leaves the record as it
\* is and sets the field's transient error to "Maximum 10 digits allowed".
C6_FilterCap ==
    /\ [](\A f \in NumericFields : Len(record[f]) <= 10)
    /\ [][\A f \in NumericFields, key \in NumericKeys :
             (/\ IsDigitKey(key)
              /\ Len(record[f]) >= 10
              /\ \E sel \in Selections(record[f], key) : KeyDownNumeric(f, key, sel)) =>
                 /\ record' = record
                 /\ numericErrors'[f] = "Maximum 10 digits allowed"
         ]_vars

\* C6 witness: zipCode holds 10 digits and a further digit was turned away.
C6_Witness ==
    /\ Len(record.zipCode) = 10
    /\ numericErrors.zipCode = "Maximum 10 digits allowed"

\* C7: the transient errors that are set are eventually cleared by their
\* timers (from any point on, once the keystrokes have stopped, every entry is
\* empty again at some later point), and a
\* step changes at most one entry of the two mappings taken together: a
\* rejected key changes the entry of its field only, a clearing timer the
\* entry of the field it was set for only.
C7_ClearedAndFramed ==
    /\ [][/\ Cardinality({f \in NameFields : nameErrors'[f] # nameErrors[f]})
              + Cardinality({f \in NumericFields :
                                 numericErrors'[f] # numericErrors[f]}) <= 1
          /\ \A i \in 1..Len(timerQ) :
                 ClearError(i) =>
                     /\ \A f \in NameFields :
                            (timerQ[i].map # "name" \/ f # timerQ[i].field) =>
                                nameErrors'[f] = nameErrors[f]
                     /\ \A f \in NumericFields :
                            (timerQ[i].map # "numeric" \/ f # timerQ[i].field) =>
                                numericErrors'[f] = numericErrors[f]
                     /\ IF timerQ[i].map = "name"
                        THEN nameErrors'[timerQ[i].field] = ""
                        ELSE numericErrors'[timerQ[i].field] = ""
         ]_vars
    /\ []<>(/\ \A f \in NameFields : nameErrors[f] = ""
            /\ \A f \in NumericFields : numericErrors[f] = "")

\* C7 witness: lastName's transient error has been set and cleared by a timer
\* (a timer of a second rejection is still pending) while no other entry moved.
C7_Witness ==
    /\ nameErrors.lastName = ""
    /\ timerQ = <<ClearTimer("name", "lastName")>>
    /\ nameErrors.firstName = ""
    /\ numericErrors = [f \in NumericFields |-> ""]

\* C8: while a clearing timer of a field is pending, the field's transient
\* error is set: the message of the latest rejection stays until the timer of
\* that rejection fires.
C8_LatestTimerGoverns ==
    \A i \in 1..Len(timerQ) :
        timerQ[i].kind = "clear" => TransientOf(timerQ[i]) # ""

\* C9: a submit is accepted whenever the form can be used, whatever is still
\* pending; every onSubmit in its delay has a timer of its own, and the one
\* waiting for its popup is the owner of the open success popup.
C9_NoSubmitGuard ==
    /\ (FormUsable /\ nSubmits < MaxSubmits) => ENABLED Submit
    /\ \A k \in 1..Len(subs) :
           /\ subs[k].phase = "delay" <=>
                  Len(SelectSeq(timerQ, LAMBDA t : t.kind = "submit" /\ t.id = k)) = 1
           /\ subs[k].phase = "dialog" <=>
                  dialog = [kind |-> "success", owner |-> k]
    /\ Len(SubmitTimers(timerQ))
           = Cardinality({k \in 1..Len(subs) : subs[k].phase = "delay"})

\* C9 witness: two onSubmit invocations are in their delay at once.
C9_Witness ==
    /\ Len(subs) = 2
    /\ subs[1].phase = "delay"
    /\ subs[2].phase = "delay"

\* C10: an onSubmit resets the form only from the state in which its delay is
\* over and its success popup is open, in the step that closes that popup; the
\* reset puts the default values in every field whatever the record held, and
\* leaves the two transient-error mappings and their pending timers alone.
C10_ResetAfterDialog ==
    [][\A k \in 1..Len(subs) :
          (subs[k].phase # "done" /\ subs'[k].phase = "done") =>
              /\ subs[k].phase = "dialog"
              /\ dialog = [kind |-> "success", owner |-> k]
              /\ dialog' # dialog
              /\ \A j \in 1..Len(timerQ) : ~(timerQ[j].kind = "submit" /\ timerQ[j].id = k)
              /\ record' = defaultValues
              /\ nameErrors' = nameErrors
              /\ numericErrors' = numericErrors
              /\ ClearTimers(timerQ') = ClearTimers(timerQ)
      ]_vars

\* C10 witness: an onSubmit has reset the form although the record had been
\* edited after validation passed.
C10_Witness ==
    \E k \in 1..Len(subs) :
        /\ subs[k].phase = "done"
        /\ subs[k].edited
        /\ record = defaultValues

====
